---- MODULE Spec2Model ----
(***************************************************************************)
(* Ticket management backend: the ticket and user stores, ticket creation, *)
(* ticket retrieval, the assignment of users to tickets and the analytics  *)
(* (src/src/controllers/tickets.ts, dashboard.ts), the registration of     *)
(* users and the initialization of the data source, over a PostgreSQL      *)
(* store running each transaction at its default READ COMMITTED isolation  *)
(* level.                                                                  *)
(*                                                                         *)
(* A request handler is an async function: it runs without interruption    *)
(* between two awaits, so every action below is one such stretch of code,  *)
(* from the completion of one storage call to the start of the next.       *)
(***************************************************************************)
EXTENDS Integers, Sequences, FiniteSets, TLC

\* ------------------------------------------------------------------ bounds
NumUsers == 7        \* rows of the users table: ids 1..NumUsers
NumRequesters == 3   \* users 1..NumRequesters hold a token and send requests
MaxTickets == 1      \* rows the tickets table may hold
MaxRequests == 2     \* requests served in one run
NumProcs == 2        \* requests that may be in flight at once
MaxTime == 2         \* instants of the clock: 0..MaxTime
MaxStored == 2       \* rows the tickets table may hold while analytics are asked for

\* ------------------------------------------------------- program constants
AssignLimit == 5     \* tickets.ts:393  assignedUsers.length >= 5

UserIds == 1..NumUsers
Requesters == 1..NumRequesters
Procs == 1..NumProcs
TicketIds == 1..(MaxTickets + 1)      \* the last id never names a row
TargetIds == 0..NumUsers              \* ids are SERIAL, from 1: 0 names no user
Statuses == {"open", "in-progress", "closed"}

\* A row of the users table (migration CreateUsers): the columns the
\* handlers read. User 1 is the administrator, every other user a customer.
\* An email address is a number, 1 and up, each user created with its own
\* (the column is UNIQUE).
UserRow(id) ==
  [id |-> id, type |-> IF id = 1 THEN "admin" ELSE "customer", email |-> id]

\* The payload of the token login issues for a user: id and type of its row.
JwtPayload(id) == [id |-> UserRow(id).id, type |-> UserRow(id).type]

Times == 0..MaxTime

\* A date string: the text of an instant, or a text that is no date.
DateString(t) == [kind |-> "date", t |-> t]
InvalidDate == [kind |-> "garbage", t |-> 0]

\* The body of POST /tickets with its eight fields.
Fields == {"title", "description", "type", "venue", "status", "price", "priority", "due_date"}

Body(type, venue, status, price, priority, due_date) ==
  [title |-> "title", description |-> "description", type |-> type, venue |-> venue,
   status |-> status, price |-> price, priority |-> priority, due_date |-> due_date]

\* generatePostgresTimestamp(due_date.toISOString()): the instant written as
\* a timestamp, to the millisecond.
GeneratePostgresTimestamp(due_date) == due_date.t

\* A row of the tickets table (migration CreateTicketsTable) made of the
\* parameters of the INSERT; assigneduser is INT[] DEFAULT '{}'. The columns
\* are those the handlers read.
TicketRow(body, created_by, assigneduser) ==
  [type |-> body.type, venue |-> body.venue, status |-> body.status, price |-> body.price,
   priority |-> body.priority, due_date |-> GeneratePostgresTimestamp(body.due_date),
   created_by |-> created_by, assigneduser |-> assigneduser]

\* obj.name in JavaScript: the property, or undefined when the object has none.
Prop(obj, name) == IF name \in DOMAIN obj THEN obj[name] ELSE "undefined"

\* ------------------------------------------------ INT[] text form and parser
\* The text PostgreSQL sends for an INT[] value is '{' e1 ',' e2 ... '}'.
\* A text is a sequence of tokens: a punctuation character or a decimal
\* literal (kept whole, with its value).
Ch(c) == [ch |-> c, n |-> 0]
Lit(n) == [ch |-> "0", n |-> n]

RECURSIVE Join(_)
Join(arr) ==
  IF Len(arr) = 0 THEN <<>>
  ELSE IF Len(arr) = 1 THEN <<Lit(arr[1])>>
  ELSE <<Lit(arr[1]), Ch(",")>> \o Join(Tail(arr))

\* array_out of the store.
ArrayOut(arr) == <<Ch("{")>> \o Join(arr) \o <<Ch("}")>>

\* String.prototype.slice(1, -1)
Slice1(text) == SubSeq(text, 2, Len(text) - 1)

\* String.prototype.split(','): the pieces between the commas; the empty
\* string yields one empty piece.
RECURSIVE SplitComma(_, _)
SplitComma(text, piece) ==
  IF Len(text) = 0 THEN <<piece>>
  ELSE IF text[1] = Ch(",") THEN <<piece>> \o SplitComma(Tail(text), <<>>)
  ELSE SplitComma(Tail(text), Append(piece, text[1]))

\* Number(s): 0 for the empty string, the value of a decimal literal.
Number(piece) == IF Len(piece) = 0 THEN 0 ELSE piece[1].n

\* The parser both handlers install for OID 1007.
IntArrayParser(val) ==
  LET pieces == SplitComma(Slice1(val), <<>>)
  IN  [i \in 1..Len(pieces) |-> Number(pieces[i])]

\* Array.prototype.includes
Includes(arr, x) == \E i \in 1..Len(arr) : arr[i] = x

\* ------------------------------------------------------------------ state
VARIABLES
  users,      \* users table: id -> row
  tickets,    \* tickets table, committed rows: ticket id -> row
  lockedBy,   \* ticket id -> the request whose transaction holds the row lock, 0 if none
  pc,         \* request -> the storage call it is about to make
  req,        \* request -> its inputs
  currentTicket, \* request -> the ticket row it read
  txActive,   \* request -> its query runner's isTransactionActive
  pend,       \* request -> the uncommitted assigneduser value its UPDATE wrote
  err,        \* request -> the error thrown inside its try block
  out,        \* request -> the response sent, or the error handed to next
  pre,        \* request -> the tickets table when the request arrived
  runner,     \* request -> its query runner: "none", "open" once created, "released"
  dataSource, \* AppDataSource: isInitialized, and the calls of initialize() so far
  nreq        \* requests served so far, where a run bounds their number

vars == <<users, tickets, lockedBy, pc, req, currentTicket, txActive, pend, err, out, pre, runner,
          dataSource, nreq>>

NoReq == [op |-> "none", ticketId |-> 0, userId |-> 0, jwt |-> [id |-> 0, type |-> ""]]
NoTicket == [status |-> "", created_by |-> 0, assigneduser |-> <<>>]
NoErr == [code |-> 0, msg |-> ""]
\* later is the status of an error handed to next after the response was
\* sent, 0 when there is none.
NoOut == [status |-> 0, errorType |-> "", message |-> "", data |-> {}, later |-> 0]

\* res.customSuccess(200, message, data)
Success(message, data) ==
  [status |-> 200, errorType |-> "", message |-> message, data |-> data, later |-> 0]

\* new CustomError(code, 'Raw', msg)
CustomError(code, msg) == [code |-> code, msg |-> msg]

\* What errorHandler sends for a CustomError: status HttpStatusCode, body JSON.
ErrorResponse(code, errorType, message) ==
  [status |-> code, errorType |-> errorType, message |-> message, data |-> {}, later |-> 0]

\* The error a failed storage call throws (a driver error with a message).
StorageError == CustomError(0, "storage error")

\* The ticket a run may start with: created by customer 2 and, one request
\* after the other, given the customers 2, 3, ... as assignees.
SeedAssignees(k) == [i \in 1..k |-> i + 1]
SeedTicket(k) ==
  TicketRow(Body("concert", "Delhi", "open", 200, "low", DateString(1)), 2, SeedAssignees(k))

\* AppDataSource as the module ormconfig exports it, and as it is once a
\* call of initialize() has returned: calls counts the calls of initialize()
\* made, failed those that threw.
NewDataSource == [isInitialized |-> FALSE, calls |-> 0, failed |-> 0]
InitializedDataSource == [isInitialized |-> TRUE, calls |-> 1, failed |-> 0]

\* The tables and the requests when the server starts to listen.
InitStore ==
  /\ users = [id \in UserIds |-> UserRow(id)]
  /\ \/ tickets = <<>>
     \/ \E k \in {0, AssignLimit - 1, AssignLimit} : tickets = <<SeedTicket(k)>>
  /\ lockedBy = [t \in 1..MaxTickets |-> 0]
  /\ pc = [p \in Procs |-> "idle"]
  /\ req = [p \in Procs |-> NoReq]
  /\ currentTicket = [p \in Procs |-> NoTicket]
  /\ txActive = [p \in Procs |-> FALSE]
  /\ pend = [p \in Procs |-> <<>>]
  /\ err = [p \in Procs |-> NoErr]
  /\ out = [p \in Procs |-> NoOut]
  /\ pre = [p \in Procs |-> <<>>]
  /\ runner = [p \in Procs |-> "none"]
  /\ nreq = 0

\* The data source was initialized before the first request is sent, as the
\* before hook of every test suite does.
Init == InitStore /\ dataSource = InitializedDataSource

\* ------------------------------------------------------ assignUserToTicket
Throw(p, e) ==
  /\ err' = [err EXCEPT ![p] = e]
  /\ pc' = [pc EXCEPT ![p] = "catch"]

\* The row SELECT * FROM tickets WHERE id = $1 returns, its INT[] column
\* run through the installed parser.
SelectedTicket(t) ==
  [tickets[t] EXCEPT !.assigneduser = IntArrayParser(ArrayOut(tickets[t].assigneduser))]

\* The checks on the ticket without the test of its status.
TicketChecksStatusIgnored(ticket, jwtPayload) ==
  LET isAdmin == jwtPayload.type = "admin"
      isCreator == ticket.created_by = jwtPayload.id
  IN  IF ~isAdmin /\ ~isCreator
        THEN CustomError(403, "Unauthorized")
      ELSE NoErr

\* The checks on the ticket with || in place of && in the authorization
\* test: the requester must be both administrator and creator.
TicketChecksBothRoles(ticket, jwtPayload) ==
  LET isAdmin == jwtPayload.type = "admin"
      isCreator == ticket.created_by = jwtPayload.id
  IN  IF ticket.status = "closed"
        THEN CustomError(400, "Cannot assign users to a closed ticket.")
      ELSE IF ~isAdmin \/ ~isCreator
        THEN CustomError(403, "Unauthorized")
      ELSE NoErr

\* Lines 361-371, run on the ticket row just read: the error thrown, or
\* NoErr when the handler goes on to read the user.
TicketChecks(ticket, jwtPayload) ==
  LET isAdmin == jwtPayload.type = "admin"
      isCreator == ticket.created_by = jwtPayload.id
  IN  IF ticket.status = "closed"
        THEN CustomError(400, "Cannot assign users to a closed ticket.")
      ELSE IF ~isAdmin /\ ~isCreator
        THEN CustomError(403, "Unauthorized")
      ELSE NoErr

\* Line 382: the test on the row read from the users table.
IsAdminTarget(userToAssign) == Prop(userToAssign, "role") = "admin"

\* The duplicate test looking at the first assignee only.
AlreadyAssignedFirstOnly(assignedUsers, parsedUserId) ==
  Len(assignedUsers) > 0 /\ assignedUsers[1] = parsedUserId

\* Line 388.
AlreadyAssigned(assignedUsers, parsedUserId) == Includes(assignedUsers, parsedUserId)

\* The limit test written with > in place of >=.
LimitReachedOffByOne(assignedUsers) == Len(assignedUsers) > AssignLimit

\* Line 393.
LimitReached(assignedUsers) == Len(assignedUsers) >= AssignLimit

\* Lines 379-395, run on the user row just read: the error thrown, or NoErr
\* when the handler goes on to the UPDATE.
UserChecks(userToAssign, assignedUsers, parsedUserId) ==
  IF IsAdminTarget(userToAssign)
    THEN CustomError(400, "You can't assign a ticket to an admin.")
  ELSE IF AlreadyAssigned(assignedUsers, parsedUserId)
    THEN CustomError(400, "User already assigned")
  ELSE IF LimitReached(assignedUsers)
    THEN CustomError(400, "User assignment limit reached")
  ELSE NoErr

\* ARRAY_PREPEND in place of ARRAY_APPEND.
ArrayPrepend(arr, x) == <<x>> \o arr

\* ARRAY_APPEND(assigneduser, $1)
ArrayAppend(arr, x) == Append(arr, x)

\* The request arrives: lines 333-347.
AssignArrive(p) ==
  /\ pc[p] = "idle"
  /\ nreq < MaxRequests
  /\ \E t \in TicketIds, u \in TargetIds, r \in Requesters :
       req' = [req EXCEPT ![p] =
                 [op |-> "assign", ticketId |-> t, userId |-> u, jwt |-> JwtPayload(r)]]
  /\ pc' = [pc EXCEPT ![p] = "connect"]
  /\ pre' = [pre EXCEPT ![p] = tickets]
  /\ nreq' = nreq + 1
  /\ runner' = [runner EXCEPT ![p] = "open"]
  /\ UNCHANGED <<dataSource, users, tickets, lockedBy, currentTicket, txActive, pend, err, out>>

\* await queryRunner.connect()
AssignConnect(p) ==
  /\ pc[p] = "connect"
  /\ \/ /\ pc' = [pc EXCEPT ![p] = "startTransaction"]
        /\ UNCHANGED err
     \/ Throw(p, StorageError)
  /\ UNCHANGED <<dataSource, users, tickets, lockedBy, req, currentTicket, txActive, pend, out, pre, runner, nreq>>

\* await queryRunner.startTransaction(): the runner marks the transaction
\* active before it sends START TRANSACTION.
AssignStartTransaction(p) ==
  /\ pc[p] = "startTransaction"
  /\ txActive' = [txActive EXCEPT ![p] = TRUE]
  /\ \/ /\ pc' = [pc EXCEPT ![p] = "selectTicket"]
        /\ UNCHANGED err
     \/ Throw(p, StorageError)
  /\ UNCHANGED <<dataSource, users, tickets, lockedBy, req, currentTicket, pend, out, pre, runner, nreq>>

\* Lines 353-371: SELECT the ticket (a plain SELECT reads the committed row
\* and waits for no lock), then the checks on it.
AssignSelectTicket(p) ==
  /\ pc[p] = "selectTicket"
  /\ \/ /\ Throw(p, StorageError)
        /\ UNCHANGED currentTicket
     \/ /\ req[p].ticketId \notin DOMAIN tickets
        /\ Throw(p, CustomError(404, "Ticket not found."))
        /\ UNCHANGED currentTicket
     \/ /\ req[p].ticketId \in DOMAIN tickets
        /\ LET ticket == SelectedTicket(req[p].ticketId)
               e == TicketChecks(ticket, req[p].jwt)
           IN  /\ currentTicket' = [currentTicket EXCEPT ![p] = ticket]
               /\ IF e # NoErr
                    THEN Throw(p, e)
                    ELSE /\ pc' = [pc EXCEPT ![p] = "selectUser"]
                         /\ UNCHANGED err
  /\ UNCHANGED <<dataSource, users, tickets, lockedBy, req, txActive, pend, out, pre, runner, nreq>>

\* Lines 374-395: SELECT the user, then the checks on it and on the
\* assignee list read with the ticket.
AssignSelectUser(p) ==
  /\ pc[p] = "selectUser"
  /\ \/ Throw(p, StorageError)
     \/ /\ req[p].userId \notin DOMAIN users
        /\ Throw(p, CustomError(404, "User does not exist"))
     \/ /\ req[p].userId \in DOMAIN users
        /\ LET e == UserChecks(users[req[p].userId], currentTicket[p].assigneduser,
                               req[p].userId)
           IN  IF e # NoErr
                 THEN Throw(p, e)
                 ELSE /\ pc' = [pc EXCEPT ![p] = "update"]
                      /\ UNCHANGED err
  /\ UNCHANGED <<dataSource, users, tickets, lockedBy, req, currentTicket, txActive, pend, out, pre, runner, nreq>>

\* Lines 398-404: UPDATE ... SET assigneduser = ARRAY_APPEND(assigneduser, $1).
\* The statement waits while another transaction holds the row lock, then
\* works on the row as last committed, and keeps the lock until its
\* transaction ends.
AssignUpdate(p) ==
  /\ pc[p] = "update"
  /\ \/ /\ Throw(p, StorageError)
        /\ UNCHANGED <<lockedBy, pend>>
     \/ /\ lockedBy[req[p].ticketId] = 0
        /\ lockedBy' = [lockedBy EXCEPT ![req[p].ticketId] = p]
        /\ pend' = [pend EXCEPT ![p] =
                      ArrayAppend(tickets[req[p].ticketId].assigneduser, req[p].userId)]
        /\ pc' = [pc EXCEPT ![p] = "commit"]
        /\ UNCHANGED err
  /\ UNCHANGED <<dataSource, users, tickets, req, currentTicket, txActive, out, pre, runner, nreq>>

\* The UPDATE sent outside the transaction: it is committed on its own, so
\* a COMMIT that fails leaves the new assignee in the row.
AssignCommitAfterAutocommit(p) ==
  /\ pc[p] = "commit"
  /\ lockedBy' = [lockedBy EXCEPT ![req[p].ticketId] = 0]
  /\ pend' = [pend EXCEPT ![p] = <<>>]
  /\ tickets' = [tickets EXCEPT ![req[p].ticketId].assigneduser = pend[p]]
  /\ \/ /\ txActive' = [txActive EXCEPT ![p] = FALSE]
        /\ out' = [out EXCEPT ![p] = Success("User assigned successfully", {})]
        /\ pc' = [pc EXCEPT ![p] = "finally"]
        /\ runner' = [runner EXCEPT ![p] = "released"]
        /\ UNCHANGED err
     \/ /\ Throw(p, StorageError)
        /\ UNCHANGED <<txActive, out, runner>>
  /\ UNCHANGED <<dataSource, users, req, currentTicket, pre, nreq>>

\* Lines 406-408: COMMIT, then the success response, after which control
\* enters the finally block and calls release. A COMMIT that fails commits
\* nothing: the store drops the transaction's write and its lock.
AssignCommit(p) ==
  /\ pc[p] = "commit"
  /\ lockedBy' = [lockedBy EXCEPT ![req[p].ticketId] = 0]
  /\ pend' = [pend EXCEPT ![p] = <<>>]
  /\ \/ /\ tickets' = [tickets EXCEPT ![req[p].ticketId].assigneduser = pend[p]]
        /\ txActive' = [txActive EXCEPT ![p] = FALSE]
        /\ out' = [out EXCEPT ![p] = Success("User assigned successfully", {})]
        /\ pc' = [pc EXCEPT ![p] = "finally"]
        /\ runner' = [runner EXCEPT ![p] = "released"]
        /\ UNCHANGED err
     \/ /\ Throw(p, StorageError)
        /\ UNCHANGED <<tickets, txActive, out, runner>>
  /\ UNCHANGED <<dataSource, users, req, currentTicket, pre, nreq>>

\* The error handed to next keeping the status of the error thrown.
AssignErrorKeepsCode(error) ==
  ErrorResponse(error.code, "Raw",
                IF error.msg # "" THEN error.msg ELSE "Error assigning user to ticket.")

\* Line 411: the error handed to next.
AssignError(error) ==
  ErrorResponse(400, "Raw",
                IF error.msg # "" THEN error.msg ELSE "Error assigning user to ticket.")

\* Lines 409-415: rollbackTransaction throws when no transaction is active
\* or when its ROLLBACK fails, and then the catch block hands nothing to
\* next; otherwise the error goes to next with status 400. Either way
\* control enters the finally block, which calls release.
AssignCatch(p) ==
  /\ pc[p] = "catch"
  /\ \/ /\ txActive[p]
        /\ txActive' = [txActive EXCEPT ![p] = FALSE]
        /\ out' = [out EXCEPT ![p] = AssignError(err[p])]
     \/ /\ out' = [out EXCEPT ![p] = NoOut]
        /\ UNCHANGED txActive
  /\ pc' = [pc EXCEPT ![p] = "finally"]
  /\ runner' = [runner EXCEPT ![p] = "released"]
  /\ UNCHANGED <<dataSource, users, tickets, lockedBy, req, currentTicket, pend, err, pre, nreq>>

\* The handler has returned or thrown, and the release it called, if any
\* (assignUserToTicket lines 413-415, createTicket lines 102 and 108,
\* getTicket lines 161 and 166), has completed: the request is over.
Finally(p) ==
  /\ pc[p] = "finally"
  /\ pc' = [pc EXCEPT ![p] = "idle"]
  /\ req' = [req EXCEPT ![p] = NoReq]
  /\ currentTicket' = [currentTicket EXCEPT ![p] = NoTicket]
  /\ txActive' = [txActive EXCEPT ![p] = FALSE]
  /\ err' = [err EXCEPT ![p] = NoErr]
  /\ out' = [out EXCEPT ![p] = NoOut]
  /\ pre' = [pre EXCEPT ![p] = <<>>]
  /\ runner' = [runner EXCEPT ![p] = "none"]
  /\ UNCHANGED <<dataSource, users, tickets, lockedBy, pend, nreq>>

\* The steps of the handler after the arrival of the request.
AssignUserToTicket(p) ==
  \/ AssignConnect(p)
  \/ AssignStartTransaction(p)
  \/ AssignSelectTicket(p)
  \/ AssignSelectUser(p)
  \/ AssignUpdate(p)
  \/ AssignCommit(p)
  \/ AssignCatch(p)

\* ------------------------------------------------------------ createTicket
\* Line 109: ticket.name is no field of the body.
CreateError == ErrorResponse(409, "Raw", "Ticket 'undefined' can't be saved.")

\* INSERT INTO tickets (...) VALUES ($1, ..., $9) RETURNING *: the new row
\* takes the next id and the column default '{}' for assigneduser.
InsertTicket(body, created_by) == Append(tickets, TicketRow(body, created_by, <<>>))

\* The test of line 69 with < in place of <=.
DueDateRejectedStrictly(due_date, now) == due_date.kind = "date" /\ due_date.t < now

\* Line 69: due_date <= new Date(). new Date(text) of a text that is no date
\* is an Invalid Date, and every comparison with it is false.
DueDateRejected(due_date, now) == due_date.kind = "date" /\ due_date.t <= now

\* The storage calls that may fail during a creation.
CreateFaults == {"none", "connect", "query", "query+rollback"}

\* The whole handler, lines 63-112, for requester r, on a body that passed
\* the validator, at instant now. fault names the storage call that fails:
\* "connect" leaves no transaction to roll back, so the catch block throws
\* at line 107, before it calls release and next; a later failure is rolled
\* back, released and reported with status 409 unless the ROLLBACK fails
\* too. The due date is tested before the query runner is created. toISOString of an Invalid
\* Date throws at line 95, inside the transaction. cap is the number of rows
\* the table may hold.
CreateTicketOn(p, r, body, now, fault, cap) ==
  /\ req' = [req EXCEPT ![p] =
               [op |-> "create", ticketId |-> 0, userId |-> 0, jwt |-> JwtPayload(r),
                body |-> body, now |-> now, fault |-> fault]]
  /\ IF DueDateRejected(body.due_date, now)
       THEN /\ out' = [out EXCEPT ![p] =
                         ErrorResponse(400, "Raw", "Due date must be in the future.")]
            /\ runner' = [runner EXCEPT ![p] = "none"]
            /\ UNCHANGED tickets
     ELSE IF fault \in {"connect", "query+rollback"}
       THEN /\ out' = [out EXCEPT ![p] = NoOut]
            /\ runner' = [runner EXCEPT ![p] = "open"]
            /\ UNCHANGED tickets
     ELSE IF fault = "query" \/ body.due_date.kind # "date"
       THEN /\ out' = [out EXCEPT ![p] = CreateError]
            /\ runner' = [runner EXCEPT ![p] = "released"]
            /\ UNCHANGED tickets
     ELSE /\ Len(tickets) < cap
          /\ tickets' = InsertTicket(body, JwtPayload(r).id)
          /\ runner' = [runner EXCEPT ![p] = "released"]
          /\ out' = [out EXCEPT ![p] =
                       Success("Ticket successfully saved.", {Len(tickets')})]
  /\ pc' = [pc EXCEPT ![p] = "finally"]
  /\ pre' = [pre EXCEPT ![p] = tickets]
  /\ UNCHANGED <<dataSource, users, lockedBy, currentTicket, txActive, pend, err>>

\* The bodies sent while users are assigned: they differ in their status.
CreateBodies ==
  {Body("concert", "Delhi", status, 200, "low", DateString(MaxTime)) : status \in Statuses}

\* createTicket on a body that passed the validator.
CreateTicket(p) ==
  /\ pc[p] = "idle"
  /\ nreq < MaxRequests
  /\ \E r \in Requesters, body \in CreateBodies, now \in {MaxTime - 1, MaxTime},
        fault \in CreateFaults :
       CreateTicketOn(p, r, body, now, fault, MaxTickets)
  /\ nreq' = nreq + 1

\* --------------------------------------------------------- validatorTicket
\* Lines 16-24: a field that is absent is replaced by '' (price by -1, and so
\* is a price of 0, which is falsy); lines 26-52: the fields reported.
PriceReplaced(body) == IF "price" \notin DOMAIN body \/ body.price = 0 THEN -1 ELSE body.price

ErrorsValidation(body) ==
  {f \in (Fields \cup {"created_by"}) \ {"price"} : f \notin DOMAIN body}
    \cup (IF PriceReplaced(body) < 0 THEN {"price"} ELSE {})

\* Lines 54-57.
ValidationError == ErrorResponse(400, "Validation", "Register validation error")

\* The body restricted to some of its fields.
Restrict(body, names) == [k \in names |-> body[k]]

\* The body with the field created_by the test of the route sends.
WithCreatedBy(body, id) ==
  [k \in DOMAIN body \cup {"created_by"} |-> IF k = "created_by" THEN id ELSE body[k]]

Prices == {-1, 0, 200}

\* The bodies sent to POST /tickets: every price and due date, with all the
\* fields or with one of them left out.
PostBodies ==
  LET all == Fields \cup {"created_by"}
  IN  {Restrict(WithCreatedBy(Body("concert", "Delhi", "closed", price, "low", due), 2), names) :
         price \in Prices,
         due \in {DateString(t) : t \in Times} \cup {InvalidDate},
         names \in {all} \cup {all \ {f} : f \in all}}

\* POST /tickets (router line 12): validatorTicket, then createTicket.
PostTicket(p) ==
  /\ pc[p] = "idle"
  /\ nreq < MaxRequests
  /\ \E r \in Requesters, body \in PostBodies, now \in Times, fault \in CreateFaults :
       IF ErrorsValidation(body) # {}
         THEN /\ req' = [req EXCEPT ![p] =
                           [op |-> "create", ticketId |-> 0, userId |-> 0, jwt |-> JwtPayload(r),
                            body |-> body, now |-> now, fault |-> fault]]
              /\ out' = [out EXCEPT ![p] = ValidationError]
              /\ pc' = [pc EXCEPT ![p] = "finally"]
              /\ pre' = [pre EXCEPT ![p] = tickets]
              /\ UNCHANGED <<dataSource, users, tickets, lockedBy, currentTicket, txActive, pend, err,
                             runner>>
         ELSE CreateTicketOn(p, r, body, now, fault, MaxTickets)
  /\ nreq' = nreq + 1

\* --------------------------------------------------------------- getTicket
\* SELECT id, name, email from users WHERE id = ANY($1)
UsersAmong(ids) == {u \in DOMAIN users : Includes(ids, u)}

\* The whole handler, lines 130-170: the ticket row with its assignee ids
\* replaced by the user rows found for them. The runner is released at line
\* 161 before the response, or at line 166 before the error goes to next.
GetTicket(p) ==
  /\ pc[p] = "idle"
  /\ nreq < MaxRequests
  /\ \E t \in TicketIds, r \in Requesters, fault \in BOOLEAN :
       /\ req' = [req EXCEPT ![p] =
                    [op |-> "get", ticketId |-> t, userId |-> 0, jwt |-> JwtPayload(r)]]
       /\ out' = [out EXCEPT ![p] =
                    IF fault \/ t \notin DOMAIN tickets
                      THEN ErrorResponse(400, "Raw", "Can't retrieve ticket.")
                      ELSE Success("Ticket found", UsersAmong(SelectedTicket(t).assigneduser))]
  /\ pc' = [pc EXCEPT ![p] = "finally"]
  /\ pre' = [pre EXCEPT ![p] = tickets]
  /\ runner' = [runner EXCEPT ![p] = "released"]
  /\ nreq' = nreq + 1
  /\ UNCHANGED <<dataSource, users, tickets, lockedBy, currentTicket, txActive, pend, err>>

\* --------------------------------------------------- analytics: the store
\* A value of the query string: a text without quote character, followed by
\* a tail that is empty or starts with a quote character.
Plain(text) == [text |-> text, tail |-> ""]
WithTail(text, tail) == [text |-> text, tail |-> tail]

\* An absent parameter and an empty one are both falsy.
Absent == Plain("")
NoDate == [kind |-> "absent", t |-> 0]

\* Tails: the rest of a name with an apostrophe, a condition that is always
\* true, a second statement followed by a comment.
NameTail == "'Hare"
OrTrueTail == "' OR '1'='1"
DeleteTail == "'; DELETE FROM tickets; --"

\* A statement on the tickets table: its WHERE clause, a disjunction of
\* conjunctions of conditions (AND binds tighter than OR); whether its text
\* is no valid SQL; whether a DELETE FROM tickets follows the SELECT; whether
\* its text ends in a comment, which swallows whatever is appended.
Cond(col, op, val, t) == [col |-> col, op |-> op, val |-> val, t |-> t]

\* SELECT ... FROM tickets WHERE 1 = 1
SelectTickets == [where |-> << <<>> >>, broken |-> FALSE, deletes |-> FALSE, comment |-> FALSE]

\* The text ' AND <condition>' appended to a statement.
And(sql, c) ==
  IF sql.comment THEN sql
  ELSE [sql EXCEPT !.where[Len(sql.where)] = Append(@, c)]

\* ' AND col = '${v}' ': the value is pasted between two quote characters,
\* so the string literal ends at the first quote character of the value and
\* the rest of the value is read as SQL.
AndEquals(sql, col, v) ==
  IF sql.comment THEN sql
  ELSE IF v.tail = "" THEN And(sql, Cond(col, "=", v.text, 0))
  ELSE IF v.tail = OrTrueTail
    THEN [And(sql, Cond(col, "=", v.text, 0)) EXCEPT !.where = Append(@, <<>>)]
  ELSE IF v.tail = DeleteTail
    THEN [And(sql, Cond(col, "=", v.text, 0)) EXCEPT !.deletes = TRUE, !.comment = TRUE]
  ELSE [sql EXCEPT !.broken = TRUE]

\* ' AND due_date >= '${d}' ': a text that is no date is no timestamp literal.
AndDueDate(sql, op, d) ==
  IF sql.comment THEN sql
  ELSE IF d.kind = "date" THEN And(sql, Cond("due_date", op, "", d.t))
  ELSE [sql EXCEPT !.broken = TRUE]

\* ' AND col = $n' with the value as parameter n: the column is compared
\* with the whole value.
AndParameter(sql, col, v) == And(sql, Cond(col, "=", v.text \o v.tail, 0))

Holds(row, c) ==
  CASE c.op = "=" -> row[c.col] = c.val
    [] c.op = ">=" -> row.due_date >= c.t
    [] c.op = "<=" -> row.due_date <= c.t

\* The ids of the rows a statement selects.
Rows(sql) ==
  {i \in DOMAIN tickets :
     \E d \in DOMAIN sql.where :
       \A k \in DOMAIN sql.where[d] : Holds(tickets[i], sql.where[d][k])}

\* A number of the store: NULL, or a quotient.
Null == [null |-> TRUE, num |-> 0, den |-> 1]
Quotient(num, den) == [null |-> FALSE, num |-> num, den |-> den]

RECURSIVE SumPrice(_)
SumPrice(ids) ==
  IF ids = {} THEN 0
  ELSE LET i == CHOOSE i \in ids : TRUE
       IN  tickets[i].price + SumPrice(ids \ {i})

\* AVG(price)
AvgPrice(ids) == IF ids = {} THEN Null ELSE Quotient(SumPrice(ids), Cardinality(ids))

\* DATE_PART('day', MAX(due_date) - MIN(due_date))
DaysSpanned(ids) ==
  LET dates == {tickets[i].due_date : i \in ids}
  IN  (CHOOSE hi \in dates : \A d \in dates : d <= hi)
        - (CHOOSE lo \in dates : \A d \in dates : lo <= d)

\* COUNT(*) / (DATE_PART('day', MAX(due_date) - MIN(due_date)) + 1)
PerDay(ids) ==
  IF ids = {} THEN Null ELSE Quotient(Cardinality(ids), DaysSpanned(ids) + 1)

\* COUNT(*), a bigint: the driver hands it over as its decimal text.
CountText(ids) == <<Lit(Cardinality(ids))>>

WithValue(ids, col, v) == {i \in ids : tickets[i][col] = v}

\* GROUP BY with the count taken over all the rows in place of the group.
GroupByCountingAll(ids, col) ==
  [v \in {tickets[i][col] : i \in ids} |-> [count |-> CountText(ids)]]

\* SELECT col, COUNT(*) as count ... GROUP BY col: one row for each value of
\* the column among the rows.
GroupBy(ids, col) ==
  [v \in {tickets[i][col] : i \in ids} |-> [count |-> CountText(WithValue(ids, col, v))]]

\* --------------------------------------------------- getDashboardAnalytics
\* Lines 45-50 and the same text at 80-82, 86-88, 92-94, 98-100.
DateFilter(query) ==
  LET from == IF query.startDate # NoDate
                THEN AndDueDate(SelectTickets, ">=", query.startDate) ELSE SelectTickets
  IN  IF query.endDate # NoDate THEN AndDueDate(from, "<=", query.endDate) ELSE from

\* Lines 42-62.
BaseQuery(query) ==
  LET q2 == DateFilter(query)
      q3 == IF query.status # Absent THEN AndEquals(q2, "status", query.status) ELSE q2
      q4 == IF query.priority # Absent THEN AndEquals(q3, "priority", query.priority) ELSE q3
      q5 == IF query.type # Absent THEN AndEquals(q4, "type", query.type) ELSE q4
  IN  IF query.venue # Absent THEN AndEquals(q5, "venue", query.venue) ELSE q5

\* Lines 69-71: ${baseQuery} AND status = '...'
WithStatus(sql, status) == And(sql, Cond("status", "=", status, 0))

\* row?.name || 0 on the single row of an aggregate: the store folds the
\* alias of a column that is not quoted to lower case, and that is the key
\* of the row.
OrZero(row, name) ==
  IF name \in DOMAIN row /\ ~row[name].null THEN row[name] ELSE Quotient(0, 1)

\* Lines 104-122.
DashboardData(query) ==
  LET base == BaseQuery(query)
      dated == Rows(DateFilter(query))
  IN  [totalTickets |-> Cardinality(Rows(base)),
       closedTickets |-> Cardinality(Rows(WithStatus(base, "closed"))),
       openTickets |-> Cardinality(Rows(WithStatus(base, "open"))),
       inProgressTickets |-> Cardinality(Rows(WithStatus(base, "in-progress"))),
       averageCustomerSpending |->
         OrZero([averagespending |-> AvgPrice(dated)], "averageSpending"),
       AverageTicketsBookedPerDay |->
         OrZero([avgticketsperday |-> PerDay(dated)], "avgTicketsPerDay"),
       priorityDistribution |-> GroupBy(dated, "priority"),
       typeDistribution |-> [v \in DOMAIN GroupBy(dated, "type") |->
                               GroupBy(dated, "type")[v].count]]

\* Line 126.
DashboardError == ErrorResponse(500, "Raw", "Error fetching ticket analytics")

\* The values of the query string the analytics are asked with.
Queries ==
  [startDate : {NoDate, DateString(2), InvalidDate},
   endDate : {NoDate, DateString(1)},
   status : {Absent, Plain("closed")},
   priority : {Absent, Plain("low")},
   type : {Absent, Plain("movie")},
   venue : {Absent, Plain("Delhi"), WithTail("O", NameTail), WithTail("Delhi", OrTrueTail),
            WithTail("Delhi", DeleteTail)}]

\* The storage call of an analytics request that fails: connect, a query,
\* or the first call of release.
ReadFaults == {"none", "connect", "query", "release"}

\* The whole handler, lines 25-131. A statement that is no valid SQL fails;
\* a statement followed by a DELETE is run by the store as two statements,
\* whose results are no list of rows, so that line 105 throws. release is
\* called in the finally block, after the response or the call of next: when
\* it fails the handler's promise is rejected and nothing more is emitted.
GetDashboardAnalyticsOn(p, query, fault) ==
  /\ pc[p] = "idle"
  /\ req' = [req EXCEPT ![p] = [op |-> "dashboard", query |-> query, fault |-> fault]]
  /\ IF fault \in {"connect", "query"} \/ BaseQuery(query).broken
       THEN /\ out' = [out EXCEPT ![p] = DashboardError]
            /\ UNCHANGED tickets
     ELSE IF BaseQuery(query).deletes
       THEN /\ out' = [out EXCEPT ![p] = DashboardError]
            /\ tickets' = <<>>
     ELSE /\ out' = [out EXCEPT ![p] = Success("Success", DashboardData(query))]
          /\ UNCHANGED tickets
  /\ pc' = [pc EXCEPT ![p] = "finally"]
  /\ pre' = [pre EXCEPT ![p] = tickets]
  /\ runner' = [runner EXCEPT ![p] = "released"]
  /\ UNCHANGED <<dataSource, users, lockedBy, currentTicket, txActive, pend, err, nreq>>

\* GET /dashboard/analytics with any query string.
GetDashboardAnalytics(p) ==
  /\ pc[p] = "idle"
  /\ \E query \in Queries, fault \in ReadFaults : GetDashboardAnalyticsOn(p, query, fault)

\* ------------------------------------------------------ getTicketAnalytics
\* Lines 232-261: the tickets table has no column createdDate, so a
\* statement that names it is no valid SQL.
AnalyticsQuery(query) ==
  LET q2 == IF query.startDate # NoDate \/ query.endDate # NoDate
              THEN [SelectTickets EXCEPT !.broken = TRUE] ELSE SelectTickets
      q3 == IF query.status # Absent THEN AndParameter(q2, "status", query.status) ELSE q2
      q4 == IF query.priority # Absent THEN AndParameter(q3, "priority", query.priority) ELSE q3
      q5 == IF query.type # Absent THEN AndParameter(q4, "type", query.type) ELSE q4
  IN  IF query.venue # Absent THEN AndParameter(q5, "venue", query.venue) ELSE q5

\* tickets.filter((ticket) => ticket[col] === v).length
FilterLength(ids, col, v) == Cardinality({i \in ids : tickets[i][col] = v})

\* Lines 273-277.
PriorityDistribution(ids) ==
  [k \in {"low", "medium", "high"} |-> FilterLength(ids, "priority", k)]

\* Lines 280-284 with every type of the rows as key.
TypeDistributionOfRows(ids) ==
  [k \in {tickets[i].type : i \in ids} |-> FilterLength(ids, "type", k)]

\* Lines 280-284.
TypeDistribution(ids) ==
  [k \in {"concert", "conference", "sports"} |-> FilterLength(ids, "type", k)]

\* Lines 294-303: the row has no createdDate.
Projection(i) ==
  [id |-> i, status |-> tickets[i].status, priority |-> tickets[i].priority,
   type |-> tickets[i].type, venue |-> tickets[i].venue, created_by |-> tickets[i].created_by]

\* The orders in which a SELECT without ORDER BY may return its rows: the
\* store promises none.
RowOrders(ids) ==
  {order \in [1..Cardinality(ids) -> ids] :
     \A i, j \in 1..Cardinality(ids) : order[i] = order[j] => i = j}

\* Lines 266-304, the rows of the statement of line 264 coming in order.
AnalyticsData(query, order) ==
  LET ids == Rows(AnalyticsQuery(query))
  IN  [totalTickets |-> Cardinality(ids),
       closedTickets |-> FilterLength(ids, "status", "closed"),
       openTickets |-> FilterLength(ids, "status", "open"),
       inProgressTickets |-> FilterLength(ids, "status", "in-progress"),
       priorityDistribution |-> PriorityDistribution(ids),
       typeDistribution |-> TypeDistribution(ids),
       tickets |-> [k \in 1..Len(order) |-> Projection(order[k])]]

\* Line 309.
AnalyticsError == ErrorResponse(400, "Raw", "Can't retrieve ticket analytics.")

\* The response, with the error handed to next after it was sent.
ThenError(response, error) == [response EXCEPT !.later = error.status]

\* What a request whose release fails emits (lines 286-310). When a
\* statement failed, the release of line 308 throws before next is called.
\* Otherwise the response is sent, the release of line 306 throws and the
\* catch block calls release again: that call throws too (again), or it
\* returns and the error goes to next.
ReleaseFailed(statementFailed, response, again) ==
  IF statementFailed THEN NoOut
  ELSE IF again THEN response
  ELSE ThenError(response, AnalyticsError)

\* The whole handler, lines 215-312. release is called on every path: at
\* line 306 after the response, and at line 308 in the catch block.
GetTicketAnalyticsOn(p, query, fault) ==
  /\ pc[p] = "idle"
  /\ \E order \in RowOrders(Rows(AnalyticsQuery(query))), again \in BOOLEAN :
       LET response == Success("Analytics fetched successfully", AnalyticsData(query, order))
       IN  /\ req' = [req EXCEPT ![p] =
                        [op |-> "analytics", query |-> query, fault |-> fault]]
           /\ out' = [out EXCEPT ![p] =
                        IF fault = "release"
                          THEN ReleaseFailed(AnalyticsQuery(query).broken, response, again)
                        ELSE IF fault # "none" \/ AnalyticsQuery(query).broken
                          THEN AnalyticsError
                        ELSE response]
  /\ pc' = [pc EXCEPT ![p] = "finally"]
  /\ pre' = [pre EXCEPT ![p] = tickets]
  /\ runner' = [runner EXCEPT ![p] = "released"]
  /\ UNCHANGED <<dataSource, users, tickets, lockedBy, currentTicket, txActive, pend, err, nreq>>

\* GET /tickets/analytics with any query string.
GetTicketAnalytics(p) ==
  /\ pc[p] = "idle"
  /\ \E query \in Queries, fault \in ReadFaults : GetTicketAnalyticsOn(p, query, fault)

\* ----------------------------------------------- tickets the analytics see
\* The bodies of the tickets booked before analytics are asked for.
Catalogue ==
  {Body("concert", "Delhi", "closed", 200, "low", DateString(2)),
   Body("movie", "Mumbai", "open", 100, "high", DateString(1)),
   Body("sports", "Delhi", "in-progress", 100, "medium", DateString(2)),
   Body("conference", "Mumbai", "on-hold", 300, "low", DateString(1)),
   Body("concert", "Mumbai", "closed", 100, "high", DateString(1)),
   Body("movie", "Delhi", "open", 200, "urgent", DateString(2))}

\* createTicket by customer 2 on a body of the catalogue, the store working.
BookTicket(p) ==
  /\ pc[p] = "idle"
  /\ \E body \in Catalogue, now \in Times :
       CreateTicketOn(p, 2, body, now, "none", MaxStored)
  /\ UNCHANGED nreq

\* ------------------------------------------------------------- POST /users
\* The email of a body: an address, the empty text 0 (an absent email is
\* replaced by it, users.ts:24), or -1, a text that is no address.
Emails == (-1)..(NumUsers + 2)

\* validator.isEmail and validator.isEmpty on an email.
IsEmail(email) == email >= 1
IsEmptyEmail(email) == email = 0

Passwords == {"", "pass@123"}

\* validatePassword (users.ts:10-18): false for a text with no upper-case
\* letter, as the two passwords sent are.
ValidatePassword(password) == password \notin Passwords

\* The bodies sent to POST /users.
RegisterBodies ==
  [name : {"", "Bruce Wayne"}, email : Emails, type : {"", "customer", "admin"},
   password : Passwords]

\* validatorAdd (users.ts:20-64): the fields reported. A password is
\* reported when validatePassword accepts it (line 41).
ErrorsRegister(body) ==
  (IF ~IsEmail(body.email) \/ IsEmptyEmail(body.email) THEN {"email"} ELSE {})
    \cup (IF body.password = "" \/ ValidatePassword(body.password) THEN {"password"} ELSE {})
    \cup (IF body.name = "" THEN {"name"} ELSE {})
    \cup (IF body.type = "" THEN {"type"} ELSE {})

\* userRepository.findOneBy({ email }): the ids of the rows found.
FindOneByEmail(email) == {id \in DOMAIN users : users[id].email = email}

\* The error of a duplicate with the status and type of a conflict.
UserConflictError == ErrorResponse(409, "General", "Conflict")

\* users.ts:82.
UserAlreadyExistError == ErrorResponse(400, "Validation", "User already exists")

\* The storage call of a registration that fails.
RegisterFaults == {"none", "find", "save"}

\* POST /users arrives (routes/auth.ts:22): validatorAdd runs, and when it
\* reports nothing userAlreadyExist starts and waits for its query.
RegisterArrive(p) ==
  /\ pc[p] = "idle"
  /\ nreq < MaxRequests
  /\ \E body \in RegisterBodies, fault \in RegisterFaults :
       /\ req' = [req EXCEPT ![p] = [op |-> "register", body |-> body, fault |-> fault]]
       /\ IF ErrorsRegister(body) # {}
            THEN /\ out' = [out EXCEPT ![p] = ValidationError]
                 /\ pc' = [pc EXCEPT ![p] = "finally"]
            ELSE /\ pc' = [pc EXCEPT ![p] = "findUser"]
                 /\ UNCHANGED out
  /\ pre' = [pre EXCEPT ![p] = tickets]
  /\ nreq' = nreq + 1
  /\ UNCHANGED <<dataSource, users, tickets, lockedBy, currentTicket, txActive, pend, err, runner>>

\* userAlreadyExist after its query (users.ts:76-85): a user found is
\* reported and the request ends there, otherwise addUser is next. The
\* middleware catches nothing: when the query fails the request is given no
\* outcome.
UserAlreadyExist(p) ==
  /\ pc[p] = "findUser"
  /\ IF req[p].fault = "find"
       THEN /\ pc' = [pc EXCEPT ![p] = "finally"]
            /\ UNCHANGED out
     ELSE IF FindOneByEmail(req[p].body.email) # {}
       THEN /\ out' = [out EXCEPT ![p] = UserAlreadyExistError]
            /\ pc' = [pc EXCEPT ![p] = "finally"]
     ELSE /\ pc' = [pc EXCEPT ![p] = "addUser"]
          /\ UNCHANGED out
  /\ UNCHANGED <<dataSource, users, tickets, lockedBy, req, currentTicket, txActive, pend, err, pre, runner,
                 nreq>>

\* The row INSERT INTO users makes of the body, under the next id.
NewUser(body) ==
  [id |-> Cardinality(DOMAIN users) + 1, type |-> body.type, email |-> body.email]

\* addUser (users controller lines 61-89): emailExists is called without
\* await, its promise is truthy, and the user is saved; the INSERT fails on
\* an email some row already has, the column being UNIQUE.
AddUser(p) ==
  /\ pc[p] = "addUser"
  /\ LET body == req[p].body
         user == NewUser(body)
     IN  IF req[p].fault = "save" \/ FindOneByEmail(body.email) # {}
           THEN /\ out' = [out EXCEPT ![p] =
                             ErrorResponse(409, "Raw",
                                           "User '" \o body.name \o "' can't be saved.")]
                /\ UNCHANGED users
           ELSE /\ users' = [id \in DOMAIN users \cup {user.id} |->
                               IF id = user.id THEN user ELSE users[id]]
                /\ out' = [out EXCEPT ![p] = Success("User successfully saved.", {user.id})]
  /\ pc' = [pc EXCEPT ![p] = "finally"]
  /\ UNCHANGED <<dataSource, tickets, lockedBy, req, currentTicket, txActive, pend, err, pre,
                 runner, nreq>>

\* ---------------------------------------------------- initializeDataSource
\* A request arrives whose handler starts with await initializeDataSource()
\* (dbCreateConnection.ts:4-15): line 5 reads isInitialized and, when it is
\* false, line 7 calls AppDataSource.initialize() and waits for it;
\* otherwise AppDataSource is returned.
InitializeDataSource(p) ==
  /\ pc[p] = "idle"
  /\ nreq < MaxRequests
  /\ req' = [req EXCEPT ![p] = [op |-> "initialize"]]
  /\ IF dataSource.isInitialized
       THEN /\ pc' = [pc EXCEPT ![p] = "finally"]
            /\ UNCHANGED dataSource
       ELSE /\ pc' = [pc EXCEPT ![p] = "initialize"]
            /\ dataSource' = [dataSource EXCEPT !.calls = @ + 1]
  /\ nreq' = nreq + 1
  /\ UNCHANGED <<users, tickets, lockedBy, currentTicket, txActive, pend, err, out, pre, runner>>

\* The call of initialize() ends: it has connected and set isInitialized,
\* and AppDataSource is returned (lines 8 and 14); or it throws, and the
\* error is thrown again (lines 9-12).
Initialized(p) ==
  /\ pc[p] = "initialize"
  /\ \/ /\ dataSource' = [dataSource EXCEPT !.isInitialized = TRUE]
        /\ UNCHANGED err
     \/ /\ dataSource' = [dataSource EXCEPT !.failed = @ + 1]
        /\ err' = [err EXCEPT ![p] = StorageError]
  /\ pc' = [pc EXCEPT ![p] = "finally"]
  /\ UNCHANGED <<users, tickets, lockedBy, req, currentTicket, txActive, pend, out, pre, runner,
                 nreq>>

\* ------------------------------------------------------------------- runs
\* A request arrives and runs up to its first await.
Arrival(p) ==
  \/ AssignArrive(p)
  \/ CreateTicket(p)
  \/ GetTicket(p)

\* A request in flight resumes after a storage call.
Resume(p) ==
  \/ AssignUserToTicket(p)
  \/ Finally(p)

\* Requests are served concurrently: a new one may arrive while others wait
\* for the store, and any request in flight may resume.
Next == \E p \in Procs : Arrival(p) \/ Resume(p)

Spec == Init /\ [][Next]_vars

\* One request at a time: a request arrives only while no other is in flight.
Quiet(p) == \A q \in Procs \ {p} : pc[q] = "idle"

NextSeq ==
  \E p \in Procs :
    \/ Quiet(p) /\ AssignArrive(p)
    \/ Quiet(p) /\ CreateTicket(p)
    \/ Quiet(p) /\ GetTicket(p)
    \/ Resume(p)

SpecSeq == Init /\ [][NextSeq]_vars

\* POST /tickets alone, one request at a time.
NextPost ==
  \E p \in Procs :
    \/ Quiet(p) /\ PostTicket(p)
    \/ Finally(p)

SpecPost == Init /\ [][NextPost]_vars

\* Tickets are booked and analytics asked for, one request at a time,
\* starting with no ticket.
InitDash == Init /\ tickets = <<>>

NextDash ==
  \E p \in Procs :
    \/ Quiet(p) /\ BookTicket(p)
    \/ Quiet(p) /\ GetDashboardAnalytics(p)
    \/ Quiet(p) /\ GetTicketAnalytics(p)
    \/ Finally(p)

SpecDash == InitDash /\ [][NextDash]_vars

\* Users register, one request at a time.
NextUsers ==
  \E p \in Procs :
    \/ Quiet(p) /\ RegisterArrive(p)
    \/ UserAlreadyExist(p)
    \/ AddUser(p)
    \/ Finally(p)

SpecUsers == Init /\ [][NextUsers]_vars

\* The server has just started: no request has been served and nothing has
\* initialized the data source.
InitCold == InitStore /\ dataSource = NewDataSource

\* Requests arrive while others wait for the data source.
NextInit ==
  \E p \in Procs :
    \/ InitializeDataSource(p)
    \/ Initialized(p)
    \/ Finally(p)

SpecInit == InitCold /\ [][NextInit]_vars

\* ----------------------------------------------------------------- claims
Range(seq) == {seq[i] : i \in 1..Len(seq)}

NoDuplicates(seq) == \A i, j \in 1..Len(seq) : i # j => seq[i] # seq[j]

IsPrefix(a, b) == Len(a) <= Len(b) /\ SubSeq(b, 1, Len(a)) = a

UsersAsCreated == [id \in UserIds |-> UserRow(id)]

\* Request p is an assignment whose outcome is decided (it is about to
\* release its query runner).
AssignDone(p) == pc[p] = "finally" /\ req[p].op = "assign"

\* The ticket request p names, as it was when the request arrived.
Named(p) == pre[p][req[p].ticketId]

\* Request p is an assignment that names an existing ticket.
OnTicket(p) == AssignDone(p) /\ req[p].ticketId \in DOMAIN pre[p]

\* No storage call of request p failed: none threw inside the try block and
\* the rollback of the catch block went through.
NoStorageFault(p) == err[p] # StorageError /\ out[p] # NoOut

\* The requester of p is an administrator or the creator of the ticket.
Authorised(p) == req[p].jwt.type = "admin" \/ req[p].jwt.id = Named(p).created_by

\* The target of p is a stored user that is no administrator.
CustomerTarget(p) == req[p].userId \in DOMAIN users /\ users[req[p].userId].type # "admin"

\* Request p passes the checks on the ticket and on the existence and type
\* of the target, and none of its storage calls fails.
PassesEarlierChecks(p) ==
  /\ OnTicket(p)
  /\ NoStorageFault(p)
  /\ Named(p).status # "closed"
  /\ Authorised(p)
  /\ CustomerTarget(p)

Rejected(p, message) == out[p] = ErrorResponse(400, "Raw", message)

Succeeded(p) == out[p] = Success("User assigned successfully", {})

\* The sixth distinct user for a ticket that had AssignLimit assignees.
SixthUser(p) ==
  /\ OnTicket(p)
  /\ Len(Named(p).assigneduser) = AssignLimit
  /\ req[p].userId \notin Range(Named(p).assigneduser)

\* C1: with requests served one at a time, no ticket ever has more than 5
\* assignees; a request for a sixth distinct user on a ticket with 5
\* assignees never succeeds and leaves the tickets as they were, and when it
\* passes the earlier checks it is rejected with 'User assignment limit
\* reached'.
C1_LimitSequential ==
  /\ \A t \in DOMAIN tickets : Len(tickets[t].assigneduser) <= AssignLimit
  /\ \A p \in Procs :
       SixthUser(p) =>
         /\ ~Succeeded(p)
         /\ tickets = pre[p]
         /\ PassesEarlierChecks(p) => Rejected(p, "User assignment limit reached")

C1_Witness ==
  \E p \in Procs :
    /\ SixthUser(p)
    /\ PassesEarlierChecks(p)
    /\ Rejected(p, "User assignment limit reached")
    /\ Len(tickets[req[p].ticketId].assigneduser) = AssignLimit

\* C2: with requests served concurrently, no committed ticket ever has more
\* than 5 assignees.
C2_LimitConcurrent ==
  \A t \in DOMAIN tickets : Len(tickets[t].assigneduser) <= AssignLimit

\* C3: with requests served concurrently, no id appears twice among the
\* assignees of a committed ticket.
C3_NoDuplicateConcurrent ==
  \A t \in DOMAIN tickets : NoDuplicates(tickets[t].assigneduser)

\* C4: no ticket ever has an administrator among its assignees, and an
\* assignment whose target is an administrator never succeeds.
C4_NoAdminAssignee ==
  /\ \A t \in DOMAIN tickets :
       \A u \in Range(tickets[t].assigneduser) : users[u].type # "admin"
  /\ \A p \in Procs :
       (AssignDone(p) /\ req[p].userId \in DOMAIN users
          /\ users[req[p].userId].type = "admin") => ~Succeeded(p)

\* The target of p was already among the assignees of the ticket.
Reassigned(p) == OnTicket(p) /\ req[p].userId \in Range(Named(p).assigneduser)

\* C5: with requests served one at a time, a request for a user who is
\* already an assignee never succeeds and leaves the tickets as they were,
\* when it passes the earlier checks it is rejected with 'User already
\* assigned', and no id appears twice among the assignees of a ticket.
C5_DuplicateRejected ==
  /\ \A t \in DOMAIN tickets : NoDuplicates(tickets[t].assigneduser)
  /\ \A p \in Procs :
       Reassigned(p) =>
         /\ ~Succeeded(p)
         /\ tickets = pre[p]
         /\ PassesEarlierChecks(p) => Rejected(p, "User already assigned")

C5_Witness ==
  \E p \in Procs :
    /\ Reassigned(p)
    /\ PassesEarlierChecks(p)
    /\ Rejected(p, "User already assigned")
    /\ tickets = pre[p]

\* Request p names a ticket that was closed when the request arrived.
OnClosedTicket(p) == OnTicket(p) /\ Named(p).status = "closed"

\* A step leaves the assignee list of every closed ticket no longer than it was.
ClosedNeverGrows ==
  \A t \in DOMAIN tickets :
    tickets[t].status = "closed" =>
      /\ t \in DOMAIN tickets'
      /\ tickets'[t].status = "closed"
      /\ Len(tickets'[t].assigneduser) <= Len(tickets[t].assigneduser)

\* C6: a request on a closed ticket never succeeds, whoever sends it, and
\* leaves the tickets as they were; unless a storage call fails it is
\* rejected with 'Cannot assign users to a closed ticket.'; the assignee list
\* of a closed ticket never grows.
C6_ClosedRejected ==
  /\ [](\A p \in Procs :
          OnClosedTicket(p) =>
            /\ ~Succeeded(p)
            /\ tickets = pre[p]
            /\ NoStorageFault(p) => Rejected(p, "Cannot assign users to a closed ticket."))
  /\ [][ClosedNeverGrows]_vars

C6_Witness ==
  \E p \in Procs :
    /\ OnClosedTicket(p)
    /\ req[p].jwt.type = "admin"
    /\ Rejected(p, "Cannot assign users to a closed ticket.")

\* Request p names an existing ticket that is not closed and a target that
\* passes every check on it, and none of its storage calls fails.
PassesAllButAuthorization(p) ==
  /\ OnTicket(p)
  /\ NoStorageFault(p)
  /\ Named(p).status # "closed"
  /\ CustomerTarget(p)
  /\ req[p].userId \notin Range(Named(p).assigneduser)
  /\ Len(Named(p).assigneduser) < AssignLimit

\* The tickets as request p found them, with its target appended to the
\* assignees of the ticket it names.
PreWithAssignee(p) ==
  [pre[p] EXCEPT ![req[p].ticketId].assigneduser = Append(@, req[p].userId)]

\* C7: a request that passes every check but the authorization succeeds
\* exactly when its requester is an administrator or the creator of the
\* ticket; any other requester is rejected with 'Unauthorized' and the
\* tickets stay as they were.
C7_AuthorizationDecides ==
  \A p \in Procs :
    PassesAllButAuthorization(p) =>
      IF Authorised(p)
        THEN Succeeded(p) /\ tickets = PreWithAssignee(p)
        ELSE Rejected(p, "Unauthorized") /\ tickets = pre[p]

C7_Witness ==
  \E p \in Procs :
    /\ PassesAllButAuthorization(p)
    /\ ~Authorised(p)
    /\ Rejected(p, "Unauthorized")
    /\ tickets = pre[p]

\* The message of the first check that fails for request p, in the order
\* ticket not found, ticket closed, requester unauthorized, target not
\* found, target is admin, target already assigned, limit reached; "" when
\* none fails. withAdminCheck tells whether the fifth check is in the order.
FirstFailure(p, withAdminCheck) ==
  IF req[p].ticketId \notin DOMAIN pre[p] THEN "Ticket not found."
  ELSE IF Named(p).status = "closed" THEN "Cannot assign users to a closed ticket."
  ELSE IF ~Authorised(p) THEN "Unauthorized"
  ELSE IF req[p].userId \notin DOMAIN users THEN "User does not exist"
  ELSE IF withAdminCheck /\ users[req[p].userId].type = "admin"
    THEN "You can't assign a ticket to an admin."
  ELSE IF req[p].userId \in Range(Named(p).assigneduser) THEN "User already assigned"
  ELSE IF Len(Named(p).assigneduser) >= AssignLimit THEN "User assignment limit reached"
  ELSE ""

ReportsFirstFailure(p, withAdminCheck) ==
  (AssignDone(p) /\ NoStorageFault(p)) =>
    IF FirstFailure(p, withAdminCheck) = ""
      THEN Succeeded(p)
      ELSE Rejected(p, FirstFailure(p, withAdminCheck))

\* C8: a request that fails several checks at once reports the error of the
\* first failing check in the order ticket not found, ticket closed,
\* requester unauthorized, target not found, target is admin, target already
\* assigned, limit reached.
C8_ErrorPrecedence == \A p \in Procs : ReportsFirstFailure(p, TRUE)

\* The same order without its fifth check, which is the order the handler
\* follows.
PrecedenceWithoutAdminCheck == \A p \in Procs : ReportsFirstFailure(p, FALSE)

\* Every check of the handler passes for request p on the stored rows.
HandlerChecksPass(p) ==
  /\ req[p].ticketId \in DOMAIN tickets
  /\ tickets[req[p].ticketId].status # "closed"
  /\ \/ req[p].jwt.type = "admin"
     \/ req[p].jwt.id = tickets[req[p].ticketId].created_by
  /\ req[p].userId \in DOMAIN users
  /\ Prop(users[req[p].userId], "role") # "admin"
  /\ req[p].userId \notin Range(tickets[req[p].ticketId].assigneduser)
  /\ Len(tickets[req[p].ticketId].assigneduser) < AssignLimit

AppendOnly ==
  \A t \in DOMAIN tickets :
    /\ t \in DOMAIN tickets'
    /\ [tickets'[t] EXCEPT !.assigneduser = <<>>] = [tickets[t] EXCEPT !.assigneduser = <<>>]
    /\ IsPrefix(tickets[t].assigneduser, tickets'[t].assigneduser)

CheckMessages ==
  {"Ticket not found.", "Cannot assign users to a closed ticket.", "Unauthorized",
   "User does not exist", "You can't assign a ticket to an admin.",
   "User already assigned", "User assignment limit reached"}

\* Request p is an assignment that was answered and did not succeed.
AssignRejected(p) == AssignDone(p) /\ out[p] # NoOut /\ ~Succeeded(p)

\* C11: every rejection of an assignment that is answered is answered with
\* status 400 and errorType 'Raw', its message that of the error thrown by
\* the check that failed ('Unauthorized' for a requester who is neither
\* administrator nor creator of an open ticket); the statuses 404 and 403
\* of the errors thrown are never sent.
C11_RejectedWith400 ==
  \A p \in Procs :
    /\ AssignRejected(p) =>
         /\ err[p] # NoErr
         /\ out[p] = ErrorResponse(400, "Raw", err[p].msg)
         /\ err[p] # StorageError =>
              /\ err[p].msg \in CheckMessages
              /\ err[p].msg = FirstFailure(p, FALSE)
    /\ (AssignRejected(p) /\ OnTicket(p) /\ err[p] # StorageError
          /\ Named(p).status # "closed" /\ ~Authorised(p)) =>
         out[p].message = "Unauthorized"
    /\ req[p].op = "assign" => out[p].status \notin {403, 404}

\* A rejection whose error was thrown with status 403.
C11_Witness ==
  \E p \in Procs :
    /\ AssignRejected(p)
    /\ err[p] = CustomError(403, "Unauthorized")
    /\ out[p] = ErrorResponse(400, "Raw", "Unauthorized")

\* Request p is a creation whose outcome is decided.
CreateDone(p) == pc[p] = "finally" /\ req[p].op = "create"

\* The body of creation p passed the validator and reached the handler.
ReachedHandler(p) == CreateDone(p) /\ ErrorsValidation(req[p].body) = {}

\* The due date of creation p is an instant not later than the current time.
DueNotLater(p) ==
  /\ req[p].body.due_date.kind = "date"
  /\ req[p].body.due_date.t <= req[p].now

\* C12: a creation whose due date is not strictly later than the current
\* time is rejected by the handler with status 400 and 'Due date must be in
\* the future.', whatever the storage calls would have done (none is made),
\* and the tickets stay as they were.
C12_DueDateInFuture ==
  \A p \in Procs :
    (ReachedHandler(p) /\ DueNotLater(p)) =>
      /\ out[p] = ErrorResponse(400, "Raw", "Due date must be in the future.")
      /\ tickets = pre[p]

\* A due date equal to the current time, while the store cannot be reached.
C12_Witness ==
  \E p \in Procs :
    /\ ReachedHandler(p)
    /\ req[p].body.due_date = DateString(req[p].now)
    /\ req[p].fault = "connect"
    /\ out[p] = ErrorResponse(400, "Raw", "Due date must be in the future.")
    /\ tickets = pre[p]

\* The body of creation p carries the eight fields.
Complete(p) == Fields \subseteq DOMAIN req[p].body

\* The due date of creation p is an instant later than the current time.
DueInFuture(p) ==
  /\ req[p].body.due_date.kind = "date"
  /\ req[p].body.due_date.t > req[p].now

\* Creation p stored a ticket made of its body and answered with it.
Created(p) ==
  /\ out[p] = Success("Ticket successfully saved.", {Len(tickets)})
  /\ tickets = Append(pre[p], TicketRow(req[p].body, req[p].jwt.id, <<>>))

\* C13: unless a storage call fails, POST /tickets is rejected with status
\* 400 exactly when one of the eight fields is missing, the price is
\* negative or the due date is not in the future; a body with exactly the
\* eight fields, a price that is not negative (0 included) and a due date in
\* the future creates a ticket and returns it.
C13_PostTicketContract ==
  \A p \in Procs :
    (CreateDone(p) /\ req[p].fault = "none") =>
      LET valid == Complete(p) /\ req[p].body.price >= 0 /\ DueInFuture(p)
      IN  /\ out[p].status = 400 <=> ~valid
          /\ (valid /\ DOMAIN req[p].body = Fields) => Created(p)

\* ------------------------------------------------------ claims: analytics
\* Request p is an analytics request whose outcome is decided.
DashboardDone(p) == pc[p] = "finally" /\ req[p].op = "dashboard"
AnalyticsDone(p) == pc[p] = "finally" /\ req[p].op = "analytics"

\* The text of a value of the query string.
ValueText(v) == v.text \o v.tail

\* The row passes every filter the query supplies: its due date lies
\* between the bounds, bounds included, and its status, priority, type and
\* venue equal the values asked for.
Matches(row, query) ==
  /\ query.startDate # NoDate =>
       (query.startDate.kind = "date" /\ row.due_date >= query.startDate.t)
  /\ query.endDate # NoDate =>
       (query.endDate.kind = "date" /\ row.due_date <= query.endDate.t)
  /\ query.status # Absent => row.status = ValueText(query.status)
  /\ query.priority # Absent => row.priority = ValueText(query.priority)
  /\ query.type # Absent => row.type = ValueText(query.type)
  /\ query.venue # Absent => row.venue = ValueText(query.venue)

\* The filtered set of a query: the ids of the rows of a table that pass.
Filtered(table, query) == {i \in DOMAIN table : Matches(table[i], query)}

\* C14: an analytics request leaves the tickets and the users as they were
\* when it arrived, whatever its filters and its outcome.
C14_AnalyticsReadOnly ==
  \A p \in Procs :
    (DashboardDone(p) \/ AnalyticsDone(p)) =>
      /\ tickets = pre[p]
      /\ users = UsersAsCreated

\* C15: an analytics request that is answered while the tickets do not
\* change reports totalTickets = closedTickets + openTickets +
\* inProgressTickets + the number of filtered tickets in any other status.
C15_TotalIsSumOfStatuses ==
  \A p \in Procs :
    ((DashboardDone(p) \/ AnalyticsDone(p)) /\ out[p].status = 200 /\ tickets = pre[p]) =>
      out[p].data.totalTickets =
        out[p].data.closedTickets + out[p].data.openTickets + out[p].data.inProgressTickets
          + Cardinality({i \in Filtered(tickets, req[p].query) :
                           tickets[i].status \notin {"closed", "open", "in-progress"}})

\* Two quotients are the same number.
SameNumber(a, b) == ~a.null /\ ~b.null /\ a.num * b.den = b.num * a.den

\* The mean of the prices of some tickets, 0 when there is none.
MeanPrice(ids) ==
  IF ids = {} THEN Quotient(0, 1) ELSE Quotient(SumPrice(ids), Cardinality(ids))

\* C16: the averageCustomerSpending of a dashboard answer is the mean of the
\* prices of the tickets counted in its totalTickets, whatever the filters.
C16_AverageOverFiltered ==
  \A p \in Procs :
    (DashboardDone(p) /\ out[p].status = 200) =>
      SameNumber(out[p].data.averageCustomerSpending,
                 MeanPrice(Rows(BaseQuery(req[p].query))))

\* The sum of the counts of a distribution, each the text of a number.
RECURSIVE SumCounts(_, _)
SumCounts(counts, keys) ==
  IF keys = {} THEN 0
  ELSE LET k == CHOOSE k \in keys : TRUE
       IN  Number(counts[k]) + SumCounts(counts, keys \ {k})

\* C17: in a dashboard answer the counts of typeDistribution and the counts
\* of priorityDistribution each sum to totalTickets, whatever the filters.
C17_DistributionsOverFiltered ==
  \A p \in Procs :
    (DashboardDone(p) /\ out[p].status = 200) =>
      LET data == out[p].data
          priorityCounts == [k \in DOMAIN data.priorityDistribution |->
                               data.priorityDistribution[k].count]
      IN  /\ SumCounts(data.typeDistribution, DOMAIN data.typeDistribution)
               = data.totalTickets
          /\ SumCounts(priorityCounts, DOMAIN priorityCounts) = data.totalTickets

\* C18: a dashboard request whose filtered set is empty, the store working,
\* is answered with success, totalTickets 0, averageCustomerSpending 0 and
\* AverageTicketsBookedPerDay 0, neither of them null.
C18_EmptySetGivesZero ==
  \A p \in Procs :
    (DashboardDone(p) /\ req[p].fault = "none" /\ Filtered(pre[p], req[p].query) = {}) =>
      /\ out[p].status = 200
      /\ out[p].data.totalTickets = 0
      /\ out[p].data.averageCustomerSpending = Quotient(0, 1)
      /\ out[p].data.AverageTicketsBookedPerDay = Quotient(0, 1)

\* The query that supplies no filter.
NoFilters ==
  [startDate |-> NoDate, endDate |-> NoDate, status |-> Absent, priority |-> Absent,
   type |-> Absent, venue |-> Absent]

\* The number of stored tickets whose column col holds v.
Stored(col, v) == Cardinality({i \in DOMAIN tickets : tickets[i][col] = v})

\* C19: with no filter and the store working, after any bookings, the
\* dashboard answers with closedTickets the number of stored tickets that
\* are closed, with a key in priorityDistribution exactly for the priorities
\* stored tickets have and in typeDistribution exactly for their types, the
\* count under a key (the text of a number) being the number of stored
\* tickets with that priority or type.
C19_DashboardCountsStored ==
  \A p \in Procs :
    (DashboardDone(p) /\ req[p].query = NoFilters /\ req[p].fault = "none") =>
      LET data == out[p].data
      IN  /\ out[p].status = 200
          /\ data.totalTickets = Len(tickets)
          /\ data.closedTickets = Stored("status", "closed")
          /\ DOMAIN data.priorityDistribution = {tickets[i].priority : i \in DOMAIN tickets}
          /\ \A k \in DOMAIN data.priorityDistribution :
               Number(data.priorityDistribution[k].count) = Stored("priority", k)
          /\ DOMAIN data.typeDistribution = {tickets[i].type : i \in DOMAIN tickets}
          /\ \A k \in DOMAIN data.typeDistribution :
               Number(data.typeDistribution[k]) = Stored("type", k)

\* Two tickets of different priorities, one of them closed.
C19_Witness ==
  \E p \in Procs :
    /\ DashboardDone(p) /\ req[p].query = NoFilters /\ req[p].fault = "none"
    /\ Len(tickets) = 2
    /\ out[p].data.closedTickets = 1
    /\ DOMAIN out[p].data.priorityDistribution = {"low", "high"}
    /\ Number(out[p].data.priorityDistribution["low"].count) = 1
    /\ "movie" \in DOMAIN out[p].data.typeDistribution

RECURSIVE SumValues(_, _)
SumValues(counts, keys) ==
  IF keys = {} THEN 0
  ELSE LET k == CHOOSE k \in keys : TRUE
       IN  counts[k] + SumValues(counts, keys \ {k})

\* C20: an answer of getTicketAnalytics has in priorityDistribution exactly
\* the keys low, medium, high and in typeDistribution exactly the keys
\* concert, conference, sports, each with the number of filtered tickets of
\* that priority or type; every filtered ticket is counted in totalTickets
\* and listed in tickets, one of another type in no bucket, so the values of
\* typeDistribution sum to at most totalTickets.
C20_FixedKeys ==
  \A p \in Procs :
    (AnalyticsDone(p) /\ out[p].status = 200) =>
      LET data == out[p].data
          ids == Filtered(tickets, req[p].query)
      IN  /\ DOMAIN data.priorityDistribution = {"low", "medium", "high"}
          /\ \A k \in DOMAIN data.priorityDistribution :
               data.priorityDistribution[k] =
                 Cardinality({i \in ids : tickets[i].priority = k})
          /\ DOMAIN data.typeDistribution = {"concert", "conference", "sports"}
          /\ \A k \in DOMAIN data.typeDistribution :
               data.typeDistribution[k] = Cardinality({i \in ids : tickets[i].type = k})
          /\ data.totalTickets = Cardinality(ids)
          /\ {data.tickets[k].id : k \in DOMAIN data.tickets} = ids
          /\ SumValues(data.typeDistribution, DOMAIN data.typeDistribution)
               = Cardinality({i \in ids : tickets[i].type \in DOMAIN data.typeDistribution})
          /\ SumValues(data.typeDistribution, DOMAIN data.typeDistribution)
               <= data.totalTickets

\* A ticket of type movie among the filtered ones.
C20_Witness ==
  \E p \in Procs :
    /\ AnalyticsDone(p) /\ out[p].status = 200
    /\ out[p].data.totalTickets = 2
    /\ \E k \in DOMAIN out[p].data.tickets : out[p].data.tickets[k].type = "movie"
    /\ SumValues(out[p].data.typeDistribution, DOMAIN out[p].data.typeDistribution) = 1

\* The query bounds the dates, each bound given being the text of a date.
DateBounded(query) ==
  /\ query.startDate # NoDate \/ query.endDate # NoDate
  /\ query.startDate.kind # "garbage" /\ query.endDate.kind # "garbage"

\* C21: an analytics request that gives startDate or endDate or both, the
\* store working, is answered with success, and the tickets it counts are
\* the stored ones whose due_date lies between the bounds, bounds included,
\* and that pass the other filters given.
C21_DateBoundsInclusive ==
  \A p \in Procs :
    ((DashboardDone(p) \/ AnalyticsDone(p)) /\ req[p].fault = "none"
       /\ DateBounded(req[p].query)) =>
      /\ out[p].status = 200
      /\ out[p].data.totalTickets = Cardinality(Filtered(pre[p], req[p].query))

\* The client sends again the analytics request another connection has just
\* had answered: same endpoint, same query string, same behaviour of the
\* store's calls.
RunAgain(p) ==
  \E q \in Procs \ {p} :
    /\ pc[q] = "finally"
    /\ \/ req[q].op = "dashboard" /\ GetDashboardAnalyticsOn(p, req[q].query, req[q].fault)
       \/ req[q].op = "analytics" /\ GetTicketAnalyticsOn(p, req[q].query, req[q].fault)

\* Tickets are booked and analytics asked for, some request asked twice.
NextTwice ==
  \E p \in Procs :
    \/ Quiet(p) /\ BookTicket(p)
    \/ Quiet(p) /\ GetDashboardAnalytics(p)
    \/ Quiet(p) /\ GetTicketAnalytics(p)
    \/ RunAgain(p)
    \/ Finally(p)

SpecTwice == InitDash /\ [][NextTwice]_vars

\* Two answers are the same: the same status and message and, for a success,
\* the same data.
SameAnswer(a, b) ==
  /\ a.status = b.status /\ a.message = b.message /\ a.later = b.later
  /\ a.status = 200 => a.data = b.data

\* C22: the same analytics request, asked twice of a store that works and
\* whose tickets do not change, is given the same answer twice, the tickets
\* listed by getTicketAnalytics being the same in the same order.
C22_SameRequestSameAnswer ==
  \A p, q \in Procs :
    (/\ DashboardDone(p) \/ AnalyticsDone(p)
     /\ pc[q] = "finally" /\ req[q] = req[p] /\ req[p].fault = "none"
     /\ pre[p] = tickets /\ pre[q] = tickets) =>
      SameAnswer(out[p], out[q])

\* The query bounds no date: its filters are values compared for equality.
NoDates(query) == query.startDate = NoDate /\ query.endDate = NoDate

\* What a request whose values are bound parameters does: it is answered
\* with success, counts the tickets whose fields equal the values, and
\* leaves the tickets as they were.
SelectsByEquality(p) ==
  /\ out[p].status = 200
  /\ out[p].data.totalTickets = Cardinality(Filtered(pre[p], req[p].query))
  /\ tickets = pre[p]

\* C23: whatever the characters of the values of status, priority, type and
\* venue, a quote character included, an analytics request selects the
\* tickets whose fields equal the values: the values are no part of the text
\* of the statement.
C23_ValuesAreParameters ==
  \A p \in Procs :
    ((DashboardDone(p) \/ AnalyticsDone(p)) /\ req[p].fault = "none"
       /\ NoDates(req[p].query)) =>
      SelectsByEquality(p)

\* startDate or endDate is given and is no date.
MalformedDate(query) == query.startDate.kind = "garbage" \/ query.endDate.kind = "garbage"

\* C24: an analytics request whose startDate or endDate is no well-formed
\* date is rejected with an error of type Validation, whatever the store
\* would do, since no statement is sent to it.
C24_MalformedDateRejected ==
  \A p \in Procs :
    ((DashboardDone(p) \/ AnalyticsDone(p)) /\ MalformedDate(req[p].query)) =>
      /\ out[p].status = 400
      /\ out[p].errorType = "Validation"

\* The request was given one outcome: a response, or an error handed to
\* next, and nothing after it.
OneOutcome(p) == out[p].status # 0 /\ out[p].later = 0

\* C25: an analytics request emits exactly one outcome, the success payload
\* or an error handed to the error handler, whichever of connect, a query
\* and release fails: never none, and never a success followed by an error.
C25_AnalyticsOneOutcome ==
  \A p \in Procs : (DashboardDone(p) \/ AnalyticsDone(p)) => OneOutcome(p)

\* C26: when a handler has finished, whichever storage call failed, the
\* query runner it created has had release called on it.
C26_RunnerReleased ==
  \A p \in Procs : pc[p] = "finally" => runner[p] # "open"

\* C28: a createTicket or assignUserToTicket request is answered, whichever
\* storage call fails: once its handler has run to its end, after which it
\* emits nothing more, the request has been given exactly one outcome, a
\* response or an error handed to next.
C28_WriteRequestsAnswered ==
  \A p \in Procs :
    (pc[p] = "finally" /\ req[p].op \in {"create", "assign"}) => OneOutcome(p)

\* C30: the assignee list the duplicate and limit checks of
\* assignUserToTicket are about to run on is the assigneduser sequence
\* stored in the ticket, the parser being the inverse of the store's text
\* form: same length, same members, the empty sequence for a ticket with no
\* assignee.
C30_ParserInvertsTextForm ==
  \A p \in Procs :
    (req[p].op = "assign" /\ pc[p] = "selectUser") =>
      LET stored == pre[p][req[p].ticketId].assigneduser
      IN  /\ IntArrayParser(ArrayOut(stored)) = stored
          /\ currentTicket[p].assigneduser = stored

\* Request p is a registration that has passed validatorAdd and sent the
\* query of userAlreadyExist for an email some stored user has.
FindsStoredEmail(p) ==
  /\ pc[p] = "findUser"
  /\ FindOneByEmail(req[p].body.email) # {}

\* C27: a POST /users request that passes validatorAdd and whose email
\* belongs to a stored user is, the store working, rejected with status
\* 400, type Validation and message 'User already exists' by
\* userAlreadyExist: addUser does not run and the users table is left as it
\* was.
C27_DuplicateEmailRejected ==
  [][\A p \in Procs :
       (FindsStoredEmail(p) /\ req[p].fault = "none" /\ pc'[p] # pc[p]) =>
         /\ pc'[p] = "finally"
         /\ out'[p] = ErrorResponse(400, "Validation", "User already exists")
         /\ users' = users]_vars

\* A user registers and then registers again under the same email: the
\* second request is rejected, the table holding the user once.
C27_Witness ==
  \E p \in Procs :
    /\ pc[p] = "finally" /\ req[p].op = "register"
    /\ out[p] = UserAlreadyExistError
    /\ req[p].body.email > NumUsers
    /\ Cardinality(FindOneByEmail(req[p].body.email)) = 1

\* C29: as long as no call of initialize() has thrown, initialize() has
\* been called at most once, however the requests that arrive before the
\* data source is initialized interleave, and each of them, when
\* initializeDataSource returns, has the initialized data source and no
\* error.
C29_InitializedOnce ==
  dataSource.failed = 0 =>
    /\ dataSource.calls <= 1
    /\ \A p \in Procs :
         (pc[p] = "finally" /\ req[p].op = "initialize") =>
           (err[p] = NoErr /\ dataSource.isInitialized)

====
